---- MODULE Spec2Model ----
(***************************************************************************)
(* Transient heat-conduction solvers of src/HTSv8.2.py                      *)
(* (HeatTransferSimulator.simulate_*_fast), the handler run_simulation      *)
(* that calls them, the batch loop of src/JomAnGUIv6.py                     *)
(* (JominyDebugAnalyzer.batch_process_files) and the cost calculation of    *)
(* src/Budomariv2.3.1.py (AutomotiveStampingAnalyzer.calculate_analysis),   *)
(* as state machines.                                                       *)
(*                                                                          *)
(* The program computes with Python floats; the model computes with         *)
(* fixed-point integers:                                                    *)
(*   lengths        micrometres           (GUI value in mm * 1000)          *)
(*   times          microseconds          (0.001 s = 1000, 0.5 s = 500000)  *)
(*   temperatures   millidegrees Celsius  (900 C = 900000)                  *)
(*   diffusivity    square micrometres per millisecond                      *)
(*   dimensionless coefficients (rx, rz, h*dx/k, ...)  millionths           *)
(* Every product or quotient is rounded down to the unit of its result;     *)
(* sums such as t + dt are exact: the rounding errors of binary floating    *)
(* point are not modelled.                                                  *)
(***************************************************************************)
EXTENDS Integers, Sequences, FiniteSets, TLC

\* one solver call: its arguments p, the locals of simulate_*_fast, the
\* position pc of the call, the loop-body position stmt and the value ret
\* the call returns
VARIABLES p, dt, coef, pc, T, t, time_history, temp_history, brk, steps,
          T_new, stmt, ret

\* HeatTransferSimulator: the entries of the control panel, status_var,
\* the position rpc of run_simulation and its locals results, the four
\* axes, and two history variables: the number of run_simulation calls
\* and the log of every solver call that returned
VARIABLES entries, status, rpc, results, axes, runs, log

\* JominyDebugAnalyzer.batch_process_files: the selected files, the position
\* bpc of the handler, the loop index and the three accumulators
VARIABLES files, bpc, idx, success_count, error_files, batch_results

\* JominyDebugAnalyzer: the loaded data frame self.df, the values of the
\* two column boxes of the main window, the column-selection dialog, and a
\* history variable: the columns each file of the batch was analysed with
VARIABLES df, combo, dialog, used

\* AutomotiveStampingAnalyzer: the values of the input tab as they were
\* read by the last calculation, and what the results tab shows
VARIABLES inputs, report

\* the loop body of a solver, statement by statement
body == <<T_new, stmt>>

gui == <<entries, status, rpc, results, axes, runs, log>>

batch == <<files, bpc, idx, success_count, error_files, batch_results,
           df, combo, dialog, used>>

stamping == <<inputs, report>>

vars == <<p, dt, coef, pc, T, t, time_history, temp_history, brk, steps,
          T_new, stmt, ret, gui, batch, stamping>>

----------------------------------------------------------------------------
(* Fixed-point helpers                                                      *)

Min(a, b) == IF a <= b THEN a ELSE b

Max(a, b) == IF a >= b THEN a ELSE b

Abs(a) == IF a >= 0 THEN a ELSE 0 - a

\* one million: the scale of dimensionless coefficients
CScale == 10^6

\* millidegrees per degree Celsius
TScale == 10^3

\* a / b in units of 10^-n, by long division (no intermediate overflow)
RECURSIVE LongDiv(_, _, _)
LongDiv(a, b, n) ==
    IF n = 0 THEN a \div b
    ELSE (a \div b) * 10^n + LongDiv((a % b) * 10, b, n - 1)

\* the float quotient a / b as millionths
Ratio(a, b) == LongDiv(a, b, 6)

\* the float product c * x, c in millionths (c >= 0), x in any unit
FxMul(c, x) == ((c \div 1000) * x + ((c % 1000) * x) \div 1000) \div 1000

\* exp(-x), x >= 0 in millionths, result in millionths: the Taylor series
\* up to the 6th power for x <= 0.5, and exp(-x) = exp(-x/2)^2 above
RECURSIVE ExpNeg(_)
ExpNeg(x) ==
    IF x > 500000
    THEN LET h == ExpNeg(x \div 2) IN FxMul(h, h)
    ELSE LET x2 == FxMul(x, x)
             x3 == FxMul(x2, x)
             x4 == FxMul(x3, x)
             x5 == FxMul(x4, x)
             x6 == FxMul(x5, x)
         IN  CScale - x + x2 \div 2 - x3 \div 6 + x4 \div 24
                    - x5 \div 120 + x6 \div 720

----------------------------------------------------------------------------
(* Parameters of one solver invocation                                      *)

Solvers == {"square", "cylindrical", "conical"}

Tiers == {"Low", "Medium", "High"}

\* material presets of update_material_properties
Steel == [k |-> 50, rho |-> 7800, cp |-> 500]

Copper == [k |-> 400, rho |-> 8960, cp |-> 385]

Aluminum == [k |-> 237, rho |-> 2700, cp |-> 900]

\* a "Custom" material typed into the entries (austenitic stainless steel)
Stainless == [k |-> 15, rho |-> 8000, cp |-> 500]

\* default entries of the "Cooling Conditions" frame
DefaultCooling ==
    [h_waterjet |-> 5000, h_natural |-> 10,
     T_coolant |-> 20 * TScale, T_init |-> 900 * TScale]

\* default entries of the "Specimen Geometry (mm)" frame, in micrometres;
\* width is the square width or the cylinder diameter, height the square,
\* cylinder or cone-bar cylinder height
SquareGeom == [width |-> 6000, height |-> 75000, cone_height |-> 0]

CylGeom == [width |-> 19050, height |-> 75000, cone_height |-> 0]

ConeGeom == [width |-> 19050, height |-> 65000, cone_height |-> 10000]

\* the argument list of one simulate_*_fast call plus the selected tier
Args(s, r, m, c, g, st) ==
    [solver |-> s, resolution |-> r,
     k |-> m.k, rho |-> m.rho, cp |-> m.cp,
     h_waterjet |-> c.h_waterjet, h_natural |-> c.h_natural,
     T_coolant |-> c.T_coolant, T_init |-> c.T_init,
     sim_time |-> st,
     width |-> g.width, height |-> g.height, cone_height |-> g.cone_height]

\* resolutions[tier][geometry_type]
get_resolution_params(tier, geometry_type) ==
    CASE tier = "Low" ->
           (CASE geometry_type = "square" -> <<15, 15>>
              [] geometry_type = "cylindrical" -> <<12, 25>>
              [] geometry_type = "conical" -> <<25>>)
      [] tier = "Medium" ->
           (CASE geometry_type = "square" -> <<25, 25>>
              [] geometry_type = "cylindrical" -> <<18, 35>>
              [] geometry_type = "conical" -> <<40>>)
      [] tier = "High" ->
           (CASE geometry_type = "square" -> <<35, 35>>
              [] geometry_type = "cylindrical" -> <<24, 45>>
              [] geometry_type = "conical" -> <<50>>)

\* minimum grid size enforced by max(3, n)
MinPoints == 3

\* N1 with the clamp applied to one point less than the table gives
N1OneLess(q) ==
    Max(MinPoints, get_resolution_params(q.resolution, q.solver)[1] - 1)

\* point count of the first array axis: nz (square), nr (cylinder),
\* n_points (conical)
N1(q) == Max(MinPoints, get_resolution_params(q.resolution, q.solver)[1])

\* point count of the second array axis: nx (square), nz (cylinder)
N2(q) ==
    IF q.solver = "conical" THEN 1
    ELSE Max(MinPoints, get_resolution_params(q.resolution, q.solver)[2])

\* spacing along the first array axis: dz (square), dr (cylinder),
\* dx (conical)
D1(q) ==
    CASE q.solver = "square" -> q.height \div (N1(q) - 1)
      [] q.solver = "cylindrical" -> (q.width \div 2) \div (N1(q) - 1)
      [] q.solver = "conical" -> (q.height + q.cone_height) \div (N1(q) - 1)

\* spacing along the second array axis: dx (square), dz (cylinder)
D2(q) ==
    CASE q.solver = "square" -> q.width \div (N2(q) - 1)
      [] q.solver = "cylindrical" -> q.height \div (N2(q) - 1)
      [] q.solver = "conical" -> D1(q)

\* alpha = k / (rho * cp), in square micrometres per millisecond
Alpha(q) == (q.k * 10^6) \div ((q.rho * q.cp) \div 1000)

\* floor of the time step: 0.001 s
DtFloor == 1000

\* ceiling of the cylindrical time step: 0.1 s
DtCeil == 100000

\* the explicit-scheme stability candidate C * min(spacing^2) / (4 * alpha)
\* in microseconds: C = 0.25 (square), 0.1 (cylinder), 0.3 (conical);
\* the factor 1000 * C / 4 is written in lowest terms
StableDt(q) ==
    CASE q.solver = "square" ->
           (125 * Min(D2(q)^2, D1(q)^2)) \div (2 * Alpha(q))
      [] q.solver = "cylindrical" ->
           (25 * Min(D1(q)^2, D2(q)^2)) \div Alpha(q)
      [] q.solver = "conical" ->
           (75 * D1(q)^2) \div Alpha(q)

\* SelectDt without the 0.001 s floor
SelectDtNoFloor(q) ==
    CASE q.solver = "square" -> StableDt(q)
      [] q.solver = "cylindrical" -> Min(StableDt(q), DtCeil)
      [] q.solver = "conical" -> StableDt(q)

\* SelectDt without the 0.1 s ceiling of the cylindrical solver
SelectDtNoCeiling(q) == Max(DtFloor, StableDt(q))

\* the time step each solver selects
SelectDt(q) ==
    CASE q.solver = "square" -> Max(DtFloor, StableDt(q))
      [] q.solver = "cylindrical" -> Max(DtFloor, Min(StableDt(q), DtCeil))
      [] q.solver = "conical" -> Max(DtFloor, StableDt(q))

\* alpha * dt, in square micrometres
AlphaDt(q) == (Alpha(q) * SelectDt(q)) \div 1000

----------------------------------------------------------------------------
(* One time step of each solver: the new field from the old one             *)

\* the coefficients simulate_square_bar_fast computes before and in its
\* loop: rz, rx and h * spacing / k
SquareCoef(q) ==
    [n1 |-> N1(q), n2 |-> N2(q), Tc |-> q.T_coolant,
     r1 |-> Ratio(AlphaDt(q), D1(q)^2),
     r2 |-> Ratio(AlphaDt(q), D2(q)^2),
     jet1 |-> (q.h_waterjet * D1(q)) \div q.k,
     nat1 |-> (q.h_natural * D1(q)) \div q.k,
     nat2 |-> (q.h_natural * D2(q)) \div q.k]

\* CylCoef with the waterjet coefficient on the top surface as well
CylCoefJetOnTop(q) ==
    [n1 |-> N1(q), n2 |-> N2(q), Tc |-> q.T_coolant,
     r1 |-> Ratio(AlphaDt(q), D1(q)^2),
     r2 |-> Ratio(AlphaDt(q), D2(q)^2),
     cjet2 |-> (AlphaDt(q) * q.h_waterjet) \div (q.k * D2(q)),
     cnat1 |-> (AlphaDt(q) * q.h_natural) \div (q.k * D1(q)),
     cnat2 |-> (AlphaDt(q) * q.h_waterjet) \div (q.k * D2(q)),
     curv |-> Ratio(AlphaDt(q), (q.width \div 2) * D1(q))]

\* the coefficients of simulate_cylindrical_bar_fast: alpha*dt/dr^2,
\* alpha*dt/dz^2, alpha*dt*h/(k*spacing) and alpha*dt/(radius*dr)
CylCoef(q) ==
    [n1 |-> N1(q), n2 |-> N2(q), Tc |-> q.T_coolant,
     r1 |-> Ratio(AlphaDt(q), D1(q)^2),
     r2 |-> Ratio(AlphaDt(q), D2(q)^2),
     cjet2 |-> (AlphaDt(q) * q.h_waterjet) \div (q.k * D2(q)),
     cnat1 |-> (AlphaDt(q) * q.h_natural) \div (q.k * D1(q)),
     cnat2 |-> (AlphaDt(q) * q.h_natural) \div (q.k * D2(q)),
     curv |-> Ratio(AlphaDt(q), (q.width \div 2) * D1(q))]

\* the coefficients of simulate_conical_tip_bar_fast: alpha*dt/dx^2,
\* alpha*dt*h_natural/(k*dx) and exp(-h_waterjet*dx/k)
ConeCoef(q) ==
    [n1 |-> N1(q), n2 |-> N2(q), Tc |-> q.T_coolant,
     r1 |-> Ratio(AlphaDt(q), D1(q)^2),
     cnat1 |-> (AlphaDt(q) * q.h_natural) \div (q.k * D1(q)),
     tip |-> ExpNeg((q.h_waterjet * D1(q)) \div q.k)]

\* SquareNew with the slice assignment T_new[0, :] left out
SquareNewNoBottom(c, F) ==
    [i \in 0..(c.n1 - 1) |-> [j \in 0..(c.n2 - 1) |->
        IF i = 0
        THEN F[0][j]
        ELSE IF i = c.n1 - 1
        THEN IF j = 0 \/ j = c.n2 - 1
             THEN \* T_new = T.copy(): no slice assigns the two top corners
                  F[i][j]
             ELSE \* natural convection on top, T_new[-1, 1:-1]
                  F[i][j] + FxMul(2 * c.r1,
                      F[i - 1][j] - F[i][j] - FxMul(c.nat1, F[i][j] - c.Tc))
        ELSE IF j = 0
        THEN \* natural convection on sides, T_new[1:-1, 0]
             F[i][0] + FxMul(2 * c.r2,
                 F[i][1] - F[i][0] - FxMul(c.nat2, F[i][0] - c.Tc))
        ELSE IF j = c.n2 - 1
        THEN \* T_new[1:-1, -1]
             F[i][j] + FxMul(2 * c.r2,
                 F[i][j - 1] - F[i][j] - FxMul(c.nat2, F[i][j] - c.Tc))
        ELSE \* vectorized interior update, T_new[1:-1, 1:-1]
             F[i][j]
               + FxMul(c.r2, F[i][j + 1] - 2 * F[i][j] + F[i][j - 1])
               + FxMul(c.r1, F[i + 1][j] - 2 * F[i][j] + F[i - 1][j])]]

\* simulate_square_bar_fast, loop body: T is indexed [z][x], rows 0..nz-1
\* (row 0 is the waterjet face), columns 0..nx-1; r1 = rz, r2 = rx
SquareNew(c, F) ==
    [i \in 0..(c.n1 - 1) |-> [j \in 0..(c.n2 - 1) |->
        IF i = 0
        THEN \* waterjet at bottom, T_new[0, :]
             F[0][j] + FxMul(2 * c.r1,
                 F[1][j] - F[0][j] - FxMul(c.jet1, F[0][j] - c.Tc))
        ELSE IF i = c.n1 - 1
        THEN IF j = 0 \/ j = c.n2 - 1
             THEN \* T_new = T.copy(): no slice assigns the two top corners
                  F[i][j]
             ELSE \* natural convection on top, T_new[-1, 1:-1]
                  F[i][j] + FxMul(2 * c.r1,
                      F[i - 1][j] - F[i][j] - FxMul(c.nat1, F[i][j] - c.Tc))
        ELSE IF j = 0
        THEN \* natural convection on sides, T_new[1:-1, 0]
             F[i][0] + FxMul(2 * c.r2,
                 F[i][1] - F[i][0] - FxMul(c.nat2, F[i][0] - c.Tc))
        ELSE IF j = c.n2 - 1
        THEN \* T_new[1:-1, -1]
             F[i][j] + FxMul(2 * c.r2,
                 F[i][j - 1] - F[i][j] - FxMul(c.nat2, F[i][j] - c.Tc))
        ELSE \* vectorized interior update, T_new[1:-1, 1:-1]
             F[i][j]
               + FxMul(c.r2, F[i][j + 1] - 2 * F[i][j] + F[i][j - 1])
               + FxMul(c.r1, F[i + 1][j] - 2 * F[i][j] + F[i - 1][j])]]

\* simulate_cylindrical_bar_fast, loop body: T is indexed [r][z], radial
\* index 0..nr-1 (0 is the axis), axial index 0..nz-1 (0 is the waterjet
\* face); r1 = alpha*dt/dr^2, r2 = alpha*dt/dz^2
CylNew(c, F) ==
    [i \in 0..(c.n1 - 1) |-> [j \in 0..(c.n2 - 1) |->
        IF j = 0
        THEN \* bottom surface (z = 0), waterjet cooling, all i
             F[i][0] + FxMul(c.r2, F[i][1] - F[i][0])
                     + FxMul(c.cjet2, c.Tc - F[i][0])
        ELSE IF j = c.n2 - 1
        THEN \* top surface (z = height), natural convection, all i
             F[i][j] + FxMul(c.r2, F[i][j - 1] - F[i][j])
                     + FxMul(c.cnat2, c.Tc - F[i][j])
        ELSE IF i = 0
        THEN \* centerline (r = 0), symmetry condition
             F[0][j] + FxMul(2 * c.r1, F[1][j] - F[0][j])
                     + FxMul(c.r2, F[0][j + 1] - 2 * F[0][j] + F[0][j - 1])
        ELSE IF i = c.n1 - 1
        THEN \* outer surface (r = radius), natural convection
             F[i][j] + FxMul(c.r1, F[i - 1][j] - F[i][j])
                     + FxMul(c.curv, F[i][j] - F[i - 1][j])
                     + FxMul(c.cnat1, c.Tc - F[i][j])
        ELSE \* interior points, r_val = r_safe[i] = i * dr
             F[i][j]
               + FxMul(c.r1, F[i + 1][j] - 2 * F[i][j] + F[i - 1][j])
               + FxMul(c.r1 \div (2 * i), F[i + 1][j] - F[i - 1][j])
               + FxMul(c.r2, F[i][j + 1] - 2 * F[i][j] + F[i][j - 1])]]

\* simulate_conical_tip_bar_fast, loop body: T is indexed 0..n_points-1,
\* index 0 is the free end and index n_points-1 the tip at the waterjet
ConeNew(c, F) ==
    [i \in 0..(c.n1 - 1) |->
        IF i = 0
        THEN F[0] - FxMul(c.cnat1, F[0] - c.Tc)
        ELSE IF i = c.n1 - 1
        THEN c.Tc + FxMul(c.tip, F[i] - c.Tc)
        ELSE \* 1D heat equation, then natural convection along length
             F[i] + FxMul(c.r1, F[i + 1] - 2 * F[i] + F[i - 1])
                  - FxMul(c.cnat1, F[i] - c.Tc)]

\* the representative (center) temperature that is sampled
Center(c, F) ==
    IF c.n2 = 1
    THEN F[Min(c.n1 \div 2, c.n1 - 1)]
    ELSE F[Min(c.n1 \div 2, c.n1 - 1)][Min(c.n2 \div 2, c.n2 - 1)]

\* T = np.ones(shape) * T_init
InitField(q) ==
    IF q.solver = "conical"
    THEN [i \in 0..(N1(q) - 1) |-> q.T_init]
    ELSE [i \in 0..(N1(q) - 1) |-> [j \in 0..(N2(q) - 1) |-> q.T_init]]

----------------------------------------------------------------------------
(* History sampler and early termination                                    *)

\* minimum spacing of stored samples: 0.5 s
SampleInterval == 500000

\* early termination is considered only after t > 10 s
WarmUp == 10000000

\* two samples closer than 0.1 degree count as converged
ConvDelta == 100

\* "nearly cooled": below T_coolant + 50 degrees
NearCool == 50000

Last(h) == h[Len(h)]

\* ShouldSample with twice the interval
ShouldSampleDoubled(th, now) ==
    Len(th) = 0 \/ now - Last(th) >= 2 * SampleInterval

\* ShouldSample with the comparison made strict
ShouldSampleStrict(th, now) == Len(th) = 0 \/ now - Last(th) > SampleInterval

\* if len(time_history) == 0 or t - time_history[-1] >= 0.5
ShouldSample(th, now) == Len(th) = 0 \/ now - Last(th) >= SampleInterval

\* EarlyStop without the "nearly cooled" test
EarlyStopNoBand(q, now, Th) ==
    /\ now > WarmUp
    /\ Len(Th) > 1
    /\ Abs(Th[Len(Th)] - Th[Len(Th) - 1]) < ConvDelta

\* the two nested ifs in front of the break of the cylindrical loop
EarlyStop(q, now, Th) ==
    /\ now > WarmUp
    /\ Len(Th) > 1
    /\ Abs(Th[Len(Th)] - Th[Len(Th) - 1]) < ConvDelta
    /\ Th[Len(Th)] < q.T_coolant + NearCool

----------------------------------------------------------------------------
(* The parameter sets explored                                              *)

\* longest conical run, in seconds of simulated time
MaxSimTime == 2

Seconds(n) == n * 10^6

Millis(n) == n * 1000

\* a specimen that starts 40 degrees above the coolant
WarmCooling == [DefaultCooling EXCEPT !.T_init = 60 * TScale]

\* the same, quenched on every face
WarmQuench == [WarmCooling EXCEPT !.h_natural = 5000]

\* a cylinder of 90 mm diameter and 100 mm height
BigCyl == [width |-> 90000, height |-> 100000, cone_height |-> 0]

\* a square bar 20 mm wide
WideSquare == [width |-> 20000, height |-> 75000, cone_height |-> 0]

ConicalRuns ==
    { Args("conical", r, m, DefaultCooling, ConeGeom, Seconds(n)) :
        r \in Tiers, m \in {Steel, Copper, Aluminum}, n \in 1..MaxSimTime }

SquareRuns ==
    { Args("square", "Low", Steel, DefaultCooling, SquareGeom, Millis(600)),
      Args("square", "Low", Copper, DefaultCooling, SquareGeom, Millis(22)),
      Args("square", "Medium", Steel, DefaultCooling, SquareGeom, Millis(4)),
      Args("square", "High", Steel, DefaultCooling, SquareGeom, Millis(3)),
      Args("square", "Low", Steel, DefaultCooling, WideSquare, Millis(600)) }

CylRuns ==
    { Args("cylindrical", "Low", Steel, DefaultCooling, CylGeom, Millis(600)),
      Args("cylindrical", "Medium", Steel, DefaultCooling, CylGeom, Millis(4)),
      Args("cylindrical", "High", Steel, DefaultCooling, CylGeom, Millis(3)),
      Args("cylindrical", "Low", Stainless, DefaultCooling, BigCyl,
           Millis(10650)),
      Args("cylindrical", "Low", Stainless, WarmCooling, BigCyl,
           Seconds(15)),
      Args("cylindrical", "Low", Stainless, WarmQuench, CylGeom,
           Millis(10600)) }

\* longest run explored under fairness, in units of 10 ms
MaxLiveTime == 4

\* the default entries of every solver at every tier, for short runs
LiveScenarios ==
    { Args(g[1], r, Steel, DefaultCooling, g[2], Millis(10 * n)) :
        g \in {<<"square", SquareGeom>>, <<"cylindrical", CylGeom>>,
               <<"conical", ConeGeom>>},
        r \in Tiers, n \in 1..MaxLiveTime }

Scenarios == ConicalRuns \cup SquareRuns \cup CylRuns \cup LiveScenarios

----------------------------------------------------------------------------
(* The control panel of HeatTransferSimulator                               *)

\* the "Specimen Geometry (mm)" entries each solver is called with
DefaultGeoms ==
    [square |-> SquareGeom, cylindrical |-> CylGeom, conical |-> ConeGeom]

\* the entries and the resolution radio button after __init__; bad is the
\* set of entries whose text float() does not parse (none at start-up)
DefaultEntries ==
    [resolution |-> "Low", mat |-> Steel, cool |-> DefaultCooling,
     sim_time |-> Seconds(15), geom |-> DefaultGeoms, bad |-> {}]

\* the arguments run_simulation passes to solver s
ArgsOf(e, s) == Args(s, e.resolution, e.mat, e.cool, e.geom[s], e.sim_time)

\* no solver call is active
NoCall == [solver |-> "none"]

\* the axes each solver draws on
AxisOf(s) ==
    CASE s = "square" -> "ax1"
      [] s = "cylindrical" -> "ax2"
      [] s = "conical" -> "ax3"

\* the extent of the drawn field: width x height (imshow), radius x height
\* (contourf), total length (fill_between)
Extent(q) ==
    CASE q.solver = "square" -> <<q.width, q.height>>
      [] q.solver = "cylindrical" -> <<q.width \div 2, q.height>>
      [] q.solver = "conical" -> <<q.height + q.cone_height>>

\* freshly created axes: nothing drawn
NoPlot == [run |-> 0, image |-> <<>>, extent |-> <<>>]

\* the figure after __init__: four empty axes and self.colorbar = None
InitAxes ==
    [ax1 |-> NoPlot, ax2 |-> NoPlot, ax3 |-> NoPlot,
     ax4 |-> [run |-> 0, lines |-> <<>>],
     colorbar |-> "None"]

\* the plotting block at the end of every solver: the final field is drawn
\* on the solver's own axes, and the one colorbar of the figure is created
\* there unless it already exists
Draw(a, q, F, n) ==
    [a EXCEPT ![AxisOf(q.solver)] =
                  [run |-> n, image |-> F, extent |-> Extent(q)],
              !.colorbar = IF a.colorbar = "None" THEN AxisOf(q.solver)
                           ELSE a.colorbar]

\* the simulator window after construction
GuiInit ==
    /\ entries = DefaultEntries
    /\ status = "Ready to simulate"
    /\ rpc = "idle"
    /\ results = <<>>
    /\ axes = InitAxes
    /\ runs = 0
    /\ log = {}

\* both column boxes of the main window empty
NoColumns == [time |-> "", temp |-> ""]

\* no column-selection dialog is open
NoDialog == [open |-> FALSE, columns |-> <<>>]

\* the analyzer window after construction: no data loaded, empty column
\* boxes, nothing selected or processed
BatchInit ==
    /\ files = <<>>
    /\ bpc = "idle"
    /\ idx = 0
    /\ success_count = 0
    /\ error_files = <<>>
    /\ batch_results = <<>>
    /\ df = "None"
    /\ combo = NoColumns
    /\ dialog = NoDialog
    /\ used = <<>>

\* the results tab before the first calculation
NoReport == [shown |-> FALSE]

\* the stamping analyzer after construction: nothing read, nothing shown
StampingInit ==
    /\ inputs = <<>>
    /\ report = NoReport

----------------------------------------------------------------------------
(* The state machine: one solver invocation                                 *)

\* the lines in front of a solver's loop raise ZeroDivisionError:
\* alpha = k / (rho * cp), the division by 4 * alpha in dt, and in the
\* square solver rx = alpha * dt / dx**2 and rz = alpha * dt / dz**2
PrologueFaults(q) ==
    \/ q.rho * q.cp = 0
    \/ q.k = 0
    \/ q.solver = "square" /\ (q.width = 0 \/ q.height = 0)

\* the loop body raises ZeroDivisionError in its first iteration:
\* 1 / radius in the outer-surface loop of the cylinder, and
\* h_natural / (k * dx) in the conical solver
StepFaults(q) ==
    \/ q.solver = "cylindrical" /\ q.width = 0
    \/ q.solver = "conical" /\ q.height + q.cone_height = 0

\* the coefficients of the solver that runs
Coef(q) ==
    CASE q.solver = "square" -> SquareCoef(q)
      [] q.solver = "cylindrical" -> CylCoef(q)
      [] q.solver = "conical" -> ConeCoef(q)

\* the state at the head of the loop: time step and coefficients computed,
\* field at T_init, empty histories, t = 0
Init ==
    /\ p \in Scenarios
    /\ dt = SelectDt(p)
    /\ coef = Coef(p)
    /\ pc = "loop"
    /\ T = InitField(p)
    /\ t = 0
    /\ time_history = <<>>
    /\ temp_history = <<>>
    /\ brk = FALSE
    /\ steps = 0
    /\ T_new = <<>>
    /\ stmt = "head"
    /\ ret = <<>>
    /\ GuiInit
    /\ BatchInit
    /\ StampingInit

\* Sample storing the center temperature of the field before the step
SamplePreStep(Tn, now) ==
    IF ShouldSample(time_history, now)
    THEN /\ time_history' = Append(time_history, now)
         /\ temp_history' = Append(temp_history, Center(coef, T))
    ELSE UNCHANGED <<time_history, temp_history>>

\* Sample with the time appended at every step
SampleEveryTime(Tn, now) ==
    /\ time_history' = Append(time_history, now)
    /\ temp_history' = IF ShouldSample(time_history, now)
                       THEN Append(temp_history, Center(coef, Tn))
                       ELSE temp_history

\* the sampling block at the end of every loop body
Sample(Tn, now) ==
    IF ShouldSample(time_history, now)
    THEN /\ time_history' = Append(time_history, now)
         /\ temp_history' = Append(temp_history, Center(coef, Tn))
    ELSE UNCHANGED <<time_history, temp_history>>

\* SquareStep with the loop condition t <= sim_time
SquareStepInclusive ==
    /\ pc = "loop" /\ p.solver = "square"
    /\ t <= p.sim_time
    /\ T' = SquareNew(coef, T)
    /\ t' = t + dt
    /\ Sample(T', t + dt)
    /\ steps' = steps + 1
    /\ UNCHANGED <<p, dt, coef, pc, brk, body, ret, gui, batch, stamping>>

\* one iteration of "while t < sim_time" in simulate_square_bar_fast
SquareStep ==
    /\ pc = "loop" /\ p.solver = "square"
    /\ t < p.sim_time
    /\ T' = SquareNew(coef, T)
    /\ t' = t + dt
    /\ Sample(T', t + dt)
    /\ steps' = steps + 1
    /\ UNCHANGED <<p, dt, coef, pc, brk, body, ret, gui, batch, stamping>>

\* CylStep with the loop condition t <= sim_time
CylStepInclusive ==
    /\ pc = "loop" /\ p.solver = "cylindrical"
    /\ t <= p.sim_time /\ ~brk
    /\ ~StepFaults(p)
    /\ T' = CylNew(coef, T)
    /\ t' = t + dt
    /\ Sample(T', t + dt)
    /\ brk' = EarlyStop(p, t', temp_history')
    /\ steps' = steps + 1
    /\ UNCHANGED <<p, dt, coef, pc, body, ret, gui, batch, stamping>>

\* one iteration of "while t < sim_time" in simulate_cylindrical_bar_fast
CylStep ==
    /\ pc = "loop" /\ p.solver = "cylindrical"
    /\ t < p.sim_time /\ ~brk
    /\ ~StepFaults(p)
    /\ T' = CylNew(coef, T)
    /\ t' = t + dt
    /\ Sample(T', t + dt)
    /\ brk' = EarlyStop(p, t', temp_history')
    /\ steps' = steps + 1
    /\ UNCHANGED <<p, dt, coef, pc, body, ret, gui, batch, stamping>>

\* one iteration of "while t < sim_time" in simulate_conical_tip_bar_fast
ConeStep ==
    /\ pc = "loop" /\ p.solver = "conical"
    /\ t < p.sim_time
    /\ ~StepFaults(p)
    /\ T' = ConeNew(coef, T)
    /\ t' = t + dt
    /\ Sample(T', t + dt)
    /\ steps' = steps + 1
    /\ UNCHANGED <<p, dt, coef, pc, brk, body, ret, gui, batch, stamping>>

\* Return with the plotting block left out
ReturnNoPlot ==
    /\ pc = "loop" /\ stmt = "head"
    /\ t >= p.sim_time \/ brk
    /\ pc' = "returned"
    /\ axes' = axes
    /\ ret' = <<time_history, temp_history>>
    /\ log' = log \cup {[run |-> runs, args |-> p, ret |-> ret']}
    /\ UNCHANGED <<p, dt, coef, T, t, time_history, temp_history, brk, steps>>
    /\ UNCHANGED <<body, entries, status, rpc, results, runs, batch, stamping>>

\* the loop is left (condition false, or break), the final field is
\* drawn and "return time_history, temp_history" is executed
Return ==
    /\ pc = "loop" /\ stmt = "head"
    /\ t >= p.sim_time \/ brk
    /\ pc' = "returned"
    /\ axes' = Draw(axes, p, T, runs)
    /\ ret' = <<time_history, temp_history>>
    /\ log' = log \cup {[run |-> runs, args |-> p, ret |-> ret']}
    /\ UNCHANGED <<p, dt, coef, T, t, time_history, temp_history, brk, steps>>
    /\ UNCHANGED <<body, entries, status, rpc, results, runs, batch, stamping>>

Next == SquareStep \/ CylStep \/ ConeStep \/ Return

Spec == Init /\ [][Next]_vars

LiveInit == Init /\ p \in LiveScenarios

\* the solver runs to completion: nothing suspends its loop
FairSpec == LiveInit /\ [][Next]_vars /\ WF_vars(Next)

----------------------------------------------------------------------------
(* The loop body of each solver, one assignment statement at a time        *)

\* the assignments to T_new in one iteration, in the order of the code
LoopBody(solver) ==
    CASE solver = "square" -> <<"interior", "bottom", "left", "right", "top">>
      [] solver = "cylindrical" ->
           <<"interior", "centerline", "bottom", "top", "outer">>
      [] solver = "conical" -> <<"interior", "free_end", "tip", "loss">>

\* the position of statement s in the loop body
IndexOf(solver, s) ==
    CHOOSE k \in DOMAIN LoopBody(solver) : LoopBody(solver)[k] = s

\* what is executed after statement s; after the last assignment come
\* "T = T_new", "t += dt" and the sampling block
StmtAfter(solver, s) ==
    IF IndexOf(solver, s) = Len(LoopBody(solver)) THEN "commit"
    ELSE LoopBody(solver)[IndexOf(solver, s) + 1]

\* the nodes <<i, j>> a statement of the square solver assigns:
\* T_new[1:-1, 1:-1], T_new[0, :], T_new[1:-1, 0], T_new[1:-1, -1] and
\* T_new[-1, 1:-1]
SquareSlice(s, c) ==
    CASE s = "interior" -> (1..(c.n1 - 2)) \X (1..(c.n2 - 2))
      [] s = "bottom" -> {0} \X (0..(c.n2 - 1))
      [] s = "left" -> (1..(c.n1 - 2)) \X {0}
      [] s = "right" -> (1..(c.n1 - 2)) \X {c.n2 - 1}
      [] s = "top" -> {c.n1 - 1} \X (1..(c.n2 - 2))

\* CylSlice with the interior loop started at radial index 0
CylSliceFromAxis(s, c) ==
    CASE s = "interior" -> (0..(c.n1 - 2)) \X (1..(c.n2 - 2))
      [] s = "centerline" -> {0} \X (1..(c.n2 - 2))
      [] s = "bottom" -> (0..(c.n1 - 1)) \X {0}
      [] s = "top" -> (0..(c.n1 - 1)) \X {c.n2 - 1}
      [] s = "outer" -> {c.n1 - 1} \X (1..(c.n2 - 2))

\* the nodes <<i, j>> a loop of the cylindrical solver assigns
CylSlice(s, c) ==
    CASE s = "interior" -> (1..(c.n1 - 2)) \X (1..(c.n2 - 2))
      [] s = "centerline" -> {0} \X (1..(c.n2 - 2))
      [] s = "bottom" -> (0..(c.n1 - 1)) \X {0}
      [] s = "top" -> (0..(c.n1 - 1)) \X {c.n2 - 1}
      [] s = "outer" -> {c.n1 - 1} \X (1..(c.n2 - 2))

\* ConeSlice with the in-place loss applied to T_new[1:]
ConeSliceLossToTip(s, c) ==
    CASE s = "interior" -> (1..(c.n1 - 2)) \X {0}
      [] s = "free_end" -> {<<0, 0>>}
      [] s = "tip" -> {<<c.n1 - 1, 0>>}
      [] s = "loss" -> (1..(c.n1 - 1)) \X {0}

\* the nodes <<i, 0>> a statement of the conical solver assigns:
\* T_new[1:-1], T_new[0], T_new[-1] and again T_new[1:-1]
ConeSlice(s, c) ==
    CASE s = "interior" -> (1..(c.n1 - 2)) \X {0}
      [] s = "free_end" -> {<<0, 0>>}
      [] s = "tip" -> {<<c.n1 - 1, 0>>}
      [] s = "loss" -> (1..(c.n1 - 2)) \X {0}

Slice(solver, s, c) ==
    CASE solver = "square" -> SquareSlice(s, c)
      [] solver = "cylindrical" -> CylSlice(s, c)
      [] solver = "conical" -> ConeSlice(s, c)

\* the nodes of T_new that statement s reads to assign node n: only the
\* in-place "T_new[1:-1] -= ..." of the conical solver reads T_new, each
\* node its own entry
ReadsNew(solver, s, n) ==
    IF solver = "conical" /\ s = "loss" THEN {n} ELSE {}

\* the value statement s of the square solver assigns to node <<i, j>>;
\* F is T, the field at the start of the iteration
SquareStmt(s, c, F, i, j) ==
    CASE s = "interior" ->
           F[i][j]
             + FxMul(c.r2, F[i][j + 1] - 2 * F[i][j] + F[i][j - 1])
             + FxMul(c.r1, F[i + 1][j] - 2 * F[i][j] + F[i - 1][j])
      [] s = "bottom" ->
           F[0][j] + FxMul(2 * c.r1,
               F[1][j] - F[0][j] - FxMul(c.jet1, F[0][j] - c.Tc))
      [] s = "left" ->
           F[i][0] + FxMul(2 * c.r2,
               F[i][1] - F[i][0] - FxMul(c.nat2, F[i][0] - c.Tc))
      [] s = "right" ->
           F[i][j] + FxMul(2 * c.r2,
               F[i][j - 1] - F[i][j] - FxMul(c.nat2, F[i][j] - c.Tc))
      [] s = "top" ->
           F[i][j] + FxMul(2 * c.r1,
               F[i - 1][j] - F[i][j] - FxMul(c.nat1, F[i][j] - c.Tc))

\* CylStmt with the radial term of the centerline not doubled
CylStmtSingleRadial(s, c, F, i, j) ==
    CASE s = "interior" ->
           F[i][j]
             + FxMul(c.r1, F[i + 1][j] - 2 * F[i][j] + F[i - 1][j])
             + FxMul(c.r1 \div (2 * i), F[i + 1][j] - F[i - 1][j])
             + FxMul(c.r2, F[i][j + 1] - 2 * F[i][j] + F[i][j - 1])
      [] s = "centerline" ->
           F[0][j] + FxMul(c.r1, F[1][j] - F[0][j])
                   + FxMul(c.r2, F[0][j + 1] - 2 * F[0][j] + F[0][j - 1])
      [] s = "bottom" ->
           F[i][0] + FxMul(c.r2, F[i][1] - F[i][0])
                   + FxMul(c.cjet2, c.Tc - F[i][0])
      [] s = "top" ->
           F[i][j] + FxMul(c.r2, F[i][j - 1] - F[i][j])
                   + FxMul(c.cnat2, c.Tc - F[i][j])
      [] s = "outer" ->
           F[i][j] + FxMul(c.r1, F[i - 1][j] - F[i][j])
                   + FxMul(c.curv, F[i][j] - F[i - 1][j])
                   + FxMul(c.cnat1, c.Tc - F[i][j])

\* the value loop s of the cylindrical solver assigns to node <<i, j>>
CylStmt(s, c, F, i, j) ==
    CASE s = "interior" ->
           F[i][j]
             + FxMul(c.r1, F[i + 1][j] - 2 * F[i][j] + F[i - 1][j])
             + FxMul(c.r1 \div (2 * i), F[i + 1][j] - F[i - 1][j])
             + FxMul(c.r2, F[i][j + 1] - 2 * F[i][j] + F[i][j - 1])
      [] s = "centerline" ->
           F[0][j] + FxMul(2 * c.r1, F[1][j] - F[0][j])
                   + FxMul(c.r2, F[0][j + 1] - 2 * F[0][j] + F[0][j - 1])
      [] s = "bottom" ->
           F[i][0] + FxMul(c.r2, F[i][1] - F[i][0])
                   + FxMul(c.cjet2, c.Tc - F[i][0])
      [] s = "top" ->
           F[i][j] + FxMul(c.r2, F[i][j - 1] - F[i][j])
                   + FxMul(c.cnat2, c.Tc - F[i][j])
      [] s = "outer" ->
           F[i][j] + FxMul(c.r1, F[i - 1][j] - F[i][j])
                   + FxMul(c.curv, F[i][j] - F[i - 1][j])
                   + FxMul(c.cnat1, c.Tc - F[i][j])

\* ConeStmt with the convection loss computed from T_new
ConeStmtLossFromNew(s, c, F, G, i) ==
    CASE s = "interior" ->
           F[i] + FxMul(c.r1, F[i + 1] - 2 * F[i] + F[i - 1])
      [] s = "free_end" -> F[0] - FxMul(c.cnat1, F[0] - c.Tc)
      [] s = "tip" -> c.Tc + FxMul(c.tip, F[i] - c.Tc)
      [] s = "loss" -> G[i] - FxMul(c.cnat1, G[i] - c.Tc)

\* the value statement s of the conical solver assigns to node i; F is T
\* and G is T_new as the statements before s have left it
ConeStmt(s, c, F, G, i) ==
    CASE s = "interior" ->
           F[i] + FxMul(c.r1, F[i + 1] - 2 * F[i] + F[i - 1])
      [] s = "free_end" -> F[0] - FxMul(c.cnat1, F[0] - c.Tc)
      [] s = "tip" -> c.Tc + FxMul(c.tip, F[i] - c.Tc)
      [] s = "loss" -> G[i] - FxMul(c.cnat1, F[i] - c.Tc)

\* T_new after statement s
ApplyStmt(solver, s, c, F, G) ==
    IF solver = "conical"
    THEN [i \in DOMAIN G |->
            IF <<i, 0>> \in ConeSlice(s, c) THEN ConeStmt(s, c, F, G, i)
            ELSE G[i]]
    ELSE [i \in DOMAIN G |-> [j \in DOMAIN G[i] |->
            IF <<i, j>> \in Slice(solver, s, c)
            THEN IF solver = "square" THEN SquareStmt(s, c, F, i, j)
                 ELSE CylStmt(s, c, F, i, j)
            ELSE G[i][j]]]

\* the whole iteration as one step
StepOf(solver, c, F) ==
    CASE solver = "square" -> SquareNew(c, F)
      [] solver = "cylindrical" -> CylNew(c, F)
      [] solver = "conical" -> ConeNew(c, F)

\* the loop condition holds: T_new = T.copy()
BeginIteration ==
    /\ pc = "loop" /\ stmt = "head"
    /\ t < p.sim_time /\ ~brk
    /\ ~StepFaults(p)
    /\ T_new' = T
    /\ stmt' = LoopBody(p.solver)[1]
    /\ UNCHANGED <<p, dt, coef, pc, T, t, time_history, temp_history, brk,
                   steps, ret, gui, batch, stamping>>

\* one assignment to T_new
Assign ==
    /\ pc = "loop" /\ stmt \notin {"head", "commit"}
    /\ T_new' = ApplyStmt(p.solver, stmt, coef, T, T_new)
    /\ stmt' = StmtAfter(p.solver, stmt)
    /\ UNCHANGED <<p, dt, coef, pc, T, t, time_history, temp_history, brk,
                   steps, ret, gui, batch, stamping>>

\* T = T_new, t += dt, the sampling block and, in the cylindrical solver,
\* the early-termination test
Commit ==
    /\ pc = "loop" /\ stmt = "commit"
    /\ T' = T_new
    /\ t' = t + dt
    /\ Sample(T', t + dt)
    /\ brk' = (p.solver = "cylindrical" /\ EarlyStop(p, t', temp_history'))
    /\ steps' = steps + 1
    /\ stmt' = "head"
    /\ UNCHANGED <<p, dt, coef, pc, T_new, ret, gui, batch, stamping>>

\* runs of 10 ms of every solver at every tier, the conical runs of 1 s
\* and the cylindrical run of 0.6 s
StmtRuns ==
    {q \in LiveScenarios : q.sim_time = Millis(10)}
      \cup {q \in ConicalRuns : q.sim_time = Seconds(1)}
      \cup {q \in CylRuns : q.sim_time = Millis(600)}

StmtInit == Init /\ p \in StmtRuns

StmtNext == BeginIteration \/ Assign \/ Commit \/ Return

StmtSpec == StmtInit /\ [][StmtNext]_vars

----------------------------------------------------------------------------
(* Solver calls with a simulation time that is short, zero or negative     *)

\* the default entries of each solver with "0" or "-1" typed as simulation
\* time, and the short runs
BriefRuns ==
    LiveScenarios
      \cup { Args(g, "Low", Steel, DefaultCooling, DefaultGeoms[g], st) :
               g \in Solvers, st \in {0, 0 - Seconds(1)} }

BriefInit ==
    /\ p \in BriefRuns
    /\ dt = SelectDt(p)
    /\ coef = Coef(p)
    /\ pc = "loop"
    /\ T = InitField(p)
    /\ t = 0
    /\ time_history = <<>>
    /\ temp_history = <<>>
    /\ brk = FALSE
    /\ steps = 0
    /\ T_new = <<>>
    /\ stmt = "head"
    /\ ret = <<>>
    /\ GuiInit
    /\ BatchInit
    /\ StampingInit

BriefSpec == BriefInit /\ [][Next]_vars

----------------------------------------------------------------------------
(* The square solver called with the entries as they are after start-up     *)

\* k = 50, rho = 7800, cp = 500, h_waterjet = 5000, h_natural = 10,
\* T_coolant = 20, T_init = 900, sim_time = 15 s, 6 mm x 75 mm, tier Low
Quench == ArgsOf(DefaultEntries, "square")

QuenchInit ==
    /\ p = Quench
    /\ dt = SelectDt(p)
    /\ coef = Coef(p)
    /\ pc = "loop"
    /\ T = InitField(p)
    /\ t = 0
    /\ time_history = <<>>
    /\ temp_history = <<>>
    /\ brk = FALSE
    /\ steps = 0
    /\ T_new = <<>>
    /\ stmt = "head"
    /\ ret = <<>>
    /\ GuiInit
    /\ BatchInit
    /\ StampingInit

QuenchNext == SquareStep \/ Return

QuenchSpec == QuenchInit /\ [][QuenchNext]_vars

----------------------------------------------------------------------------
(* run_simulation: the three solvers called one after the other             *)

\* number of times the "Run Simulation" button is pressed
MaxRuns == 2

\* the default entries with a short simulation time
ShortRun == [DefaultEntries EXCEPT !.sim_time = Millis(10)]

\* what the user has typed into the entries when the button is pressed
TypedEntries ==
    { ShortRun,
      [ShortRun EXCEPT !.resolution = "Medium", !.sim_time = Millis(4)],
      [ShortRun EXCEPT !.geom.square = WideSquare],
      [ShortRun EXCEPT !.bad = {"k"}],
      [ShortRun EXCEPT !.mat.k = 0],
      [ShortRun EXCEPT !.cool.h_natural = 0 - 10],
      [ShortRun EXCEPT !.geom.cylindrical.width = 0],
      [ShortRun EXCEPT !.geom.square.width = 0] }

\* one of the float(...) conversions raises ValueError
ParseFails(e) == e.bad # {}

\* the order of the three calls
NextSolver(s) ==
    CASE s = "square" -> "cylindrical"
      [] s = "cylindrical" -> "conical"

\* EnterSolver with the histories kept from the call before
EnterSolverKeepHistory(q) ==
    /\ p' = q
    /\ dt' = SelectDt(q)
    /\ coef' = IF StepFaults(q) THEN <<>> ELSE Coef(q)
    /\ pc' = "loop"
    /\ T' = InitField(q)
    /\ t' = 0
    /\ time_history' = time_history
    /\ temp_history' = temp_history
    /\ brk' = FALSE
    /\ steps' = 0
    /\ T_new' = <<>>
    /\ stmt' = "head"
    /\ ret' = <<>>

\* a solver is called: the lines in front of its loop
EnterSolver(q) ==
    /\ p' = q
    /\ dt' = SelectDt(q)
    /\ coef' = IF StepFaults(q) THEN <<>> ELSE Coef(q)
    /\ pc' = "loop"
    /\ T' = InitField(q)
    /\ t' = 0
    /\ time_history' = <<>>
    /\ temp_history' = <<>>
    /\ brk' = FALSE
    /\ steps' = 0
    /\ T_new' = <<>>
    /\ stmt' = "head"
    /\ ret' = <<>>

\* no solver call is active: its locals do not exist
NoLocals ==
    /\ p = NoCall
    /\ dt = 0
    /\ coef = <<>>
    /\ pc = "idle"
    /\ T = <<>>
    /\ t = 0
    /\ time_history = <<>>
    /\ temp_history = <<>>
    /\ brk = FALSE
    /\ steps = 0
    /\ T_new = <<>>
    /\ stmt = "head"
    /\ ret = <<>>

\* the handler is left: the locals of the solver call are dropped
DropCall ==
    /\ p' = NoCall
    /\ dt' = 0
    /\ coef' = <<>>
    /\ pc' = "idle"
    /\ T' = <<>>
    /\ t' = 0
    /\ time_history' = <<>>
    /\ temp_history' = <<>>
    /\ brk' = FALSE
    /\ steps' = 0
    /\ T_new' = <<>>
    /\ stmt' = "head"
    /\ ret' = <<>>

\* the button is pressed: the entries are parsed and the square solver is
\* called; ValueError and any other exception end the handler
RunSimulation ==
    /\ rpc = "idle" /\ runs < MaxRuns
    /\ \E e \in TypedEntries :
         /\ entries' = e
         /\ IF ParseFails(e)
            THEN /\ status' = "Error: Check input values"
                 /\ rpc' = "idle"
                 /\ DropCall
            ELSE IF PrologueFaults(ArgsOf(e, "square"))
            THEN /\ status' = "Error in simulation"
                 /\ rpc' = "idle"
                 /\ DropCall
            ELSE /\ status' = "Running simulation..."
                 /\ rpc' = "running"
                 /\ EnterSolver(ArgsOf(e, "square"))
    /\ runs' = runs + 1
    /\ results' = <<>>
    /\ UNCHANGED <<axes, log, batch, stamping>>

\* a solver has returned: its pair is bound to the handler's locals and
\* the next solver is called; after the conical solver the three histories
\* are plotted on ax4, the canvas is drawn and the status set
Continue ==
    /\ rpc = "running" /\ pc = "returned"
    /\ LET res == [s \in (DOMAIN results) \cup {p.solver} |->
                      IF s = p.solver THEN ret ELSE results[s]]
       IN  IF p.solver = "conical"
           THEN /\ axes' = [axes EXCEPT !.ax4 = [run |-> runs, lines |-> res]]
                /\ status' = "Simulation completed!"
                /\ rpc' = "idle"
                /\ results' = <<>>
                /\ DropCall
           ELSE IF PrologueFaults(ArgsOf(entries, NextSolver(p.solver)))
           THEN /\ status' = "Error in simulation"
                /\ rpc' = "idle"
                /\ results' = <<>>
                /\ DropCall
                /\ UNCHANGED axes
           ELSE /\ results' = res
                /\ EnterSolver(ArgsOf(entries, NextSolver(p.solver)))
                /\ UNCHANGED <<status, rpc, axes>>
    /\ UNCHANGED <<entries, runs, log, batch, stamping>>

\* Fault without the "except Exception" clause of the handler
FaultUnhandled ==
    /\ rpc = "running" /\ pc = "loop"
    /\ t < p.sim_time /\ ~brk
    /\ status' = status
    /\ rpc' = "idle"
    /\ results' = <<>>
    /\ DropCall
    /\ UNCHANGED <<entries, axes, runs, log, batch, stamping>>

\* an exception inside a loop iteration (ZeroDivisionError of StepFaults,
\* or MemoryError from T.copy()) reaches "except Exception" of the handler
Fault ==
    /\ rpc = "running" /\ pc = "loop"
    /\ t < p.sim_time /\ ~brk
    /\ status' = "Error in simulation"
    /\ rpc' = "idle"
    /\ results' = <<>>
    /\ DropCall
    /\ UNCHANGED <<entries, axes, runs, log, batch, stamping>>

RunInit == NoLocals /\ GuiInit /\ BatchInit /\ StampingInit

RunNext ==
    \/ RunSimulation
    \/ SquareStep \/ CylStep \/ ConeStep \/ Return
    \/ Continue
    \/ Fault

RunSpec == RunInit /\ [][RunNext]_vars

\* the handler runs on the Tk main thread: once called, the solver it is
\* in keeps stepping (or raises, where its step divides by zero) and
\* returns, and the handler goes on
RunFairSpec ==
    RunSpec /\ WF_vars(\/ SquareStep \/ CylStep \/ ConeStep \/ Return
                       \/ Continue
                       \/ (StepFaults(p) /\ Fault))

----------------------------------------------------------------------------
(* batch_process_files of the Jominy analyzer                               *)

\* most files selected in the file dialog
MaxFiles == 3

\* the files the dialog can show, as directory and base name: reads tells
\* whether pd.read_excel succeeds, columns are the column names of the
\* sheet, analyses whether analyze_all_curves succeeds on columns that
\* exist (it raises KeyError when a selected column is missing)
FilePool ==
    { [dir |-> "run1", base |-> "one.xlsx", reads |-> TRUE,
       columns |-> <<"Time", "Temp">>, analyses |-> TRUE],
      [dir |-> "run1", base |-> "two.xlsx", reads |-> TRUE,
       columns |-> <<"Time", "Temp">>, analyses |-> TRUE],
      [dir |-> "run1", base |-> "other_columns.xlsx", reads |-> TRUE,
       columns |-> <<"t_s", "T_C">>, analyses |-> TRUE],
      [dir |-> "run1", base |-> "damaged.xlsx", reads |-> FALSE,
       columns |-> <<>>, analyses |-> FALSE],
      [dir |-> "run2", base |-> "one.xlsx", reads |-> TRUE,
       columns |-> <<"Time", "Temp">>, analyses |-> TRUE] }

\* what askopenfilenames can return: up to MaxFiles different files
Selections ==
    { sel \in UNION {[1..n -> FilePool] : n \in 0..MaxFiles} :
        \A i, j \in DOMAIN sel : i # j => sel[i] # sel[j] }

\* everything the batch handler leaves alone
simulator ==
    <<p, dt, coef, pc, T, t, time_history, temp_history, brk, steps,
      T_new, stmt, ret, gui, stamping>>

\* the elements of a sequence
Range(sq) == {sq[n] : n \in DOMAIN sq}

\* browse_file and load_file: the chosen file becomes self.df and its first
\* two columns are put into the column boxes; a file that cannot be read
\* only raises a message box
LoadFile ==
    /\ bpc = "idle"
    /\ \E file \in FilePool :
         IF file.reads
         THEN /\ df' = <<file.dir, file.base>>
              /\ combo' = [time |-> file.columns[1], temp |-> file.columns[2]]
         ELSE UNCHANGED <<df, combo>>
    /\ UNCHANGED <<files, bpc, idx, success_count, error_files,
                   batch_results, dialog, used>>
    /\ UNCHANGED simulator

\* the handler up to its loop: the file dialog, the column dialog for which
\* the first file is read when no data is loaded (outside any try; the
\* dialog is created and the handler goes on without waiting for it), the
\* three analysis parameters, and the reset of the accumulators
BatchProcessFiles ==
    /\ bpc = "idle"
    /\ \E sel \in Selections, params_ok \in BOOLEAN :
         /\ files' = sel
         /\ IF sel = <<>>
            THEN \* if not files: return
                 UNCHANGED <<bpc, idx, success_count, error_files,
                             batch_results, dialog>>
            ELSE IF df = "None" /\ ~sel[1].reads
            THEN \* pd.read_excel(files[0]) raises; nothing catches it
                 /\ bpc' = "raised"
                 /\ UNCHANGED <<idx, success_count, error_files,
                                batch_results, dialog>>
            ELSE /\ dialog' = IF df = "None"
                              THEN [open |-> TRUE, columns |-> sel[1].columns]
                              ELSE dialog
                 /\ IF ~params_ok
                    THEN \* "Invalid analysis parameters!"; return
                         /\ bpc' = "rejected"
                         /\ UNCHANGED <<idx, success_count, error_files,
                                        batch_results>>
                    ELSE /\ bpc' = "loop"
                         /\ idx' = 0
                         /\ success_count' = 0
                         /\ error_files' = <<>>
                         /\ batch_results' = <<>>
    /\ UNCHANGED <<df, combo, used>>
    /\ UNCHANGED simulator

\* one iteration of "for i, filename in enumerate(files)": the file is read
\* and analysed with the columns the boxes of the main window hold at that
\* moment; it is stored in batch_results and counted, or any exception
\* puts it on error_files
ProcessFile ==
    /\ bpc = "loop" /\ idx < Len(files)
    /\ LET file == files[idx + 1]
           cols == combo
       IN  /\ used' = Append(used, cols)
           /\ IF /\ file.reads /\ file.analyses
                 /\ {cols.time, cols.temp} \subseteq Range(file.columns)
              THEN /\ batch_results' =
                        [b \in (DOMAIN batch_results) \cup {file.base} |->
                           IF b = file.base
                           THEN [results |-> "results",
                                 full_path |-> <<file.dir, file.base>>]
                           ELSE batch_results[b]]
                   /\ success_count' = success_count + 1
                   /\ idx' = idx + 1
                   /\ UNCHANGED error_files
              ELSE /\ error_files' =
                        Append(error_files, <<file.base, "error">>)
                   /\ idx' = idx + 1
                   /\ UNCHANGED <<batch_results, success_count>>
    /\ UNCHANGED <<files, bpc, df, combo, dialog, simulator>>

\* the loop is over: the progress window is closed and the summary shown
Summary ==
    /\ bpc = "loop" /\ idx = Len(files)
    /\ bpc' = "done"
    /\ UNCHANGED <<files, idx, success_count, error_files, batch_results,
                   df, combo, dialog, used>>
    /\ UNCHANGED simulator

\* apply_selection, the callback of the dialog's Apply button: the user's
\* choice is copied into the boxes of the main window and the dialog is
\* destroyed. While the loop runs the progress window holds the grab and
\* the handler has not returned to the event loop, so the button can be
\* pressed only once the handler has ended.
ApplySelection ==
    /\ dialog.open
    /\ bpc \in {"done", "rejected"}
    /\ \E time_col, temp_col \in Range(dialog.columns) :
         combo' = [time |-> time_col, temp |-> temp_col]
    /\ dialog' = NoDialog
    /\ UNCHANGED <<files, bpc, idx, success_count, error_files,
                   batch_results, df, used>>
    /\ UNCHANGED simulator

BatchNext ==
    LoadFile \/ BatchProcessFiles \/ ProcessFile \/ Summary \/ ApplySelection

BatchSpec == RunInit /\ [][BatchNext]_vars

----------------------------------------------------------------------------
(* calculate_analysis of the stamping analyzer                              *)
(*                                                                          *)
(* Units: part length and width in mm, thickness in micrometres, density   *)
(* in hundredths of g/cm3, prices in $ per metric ton and in tenths of $   *)
(* per kg, areas in cm2, weights in 10^-9 kg, costs per part in 10^-10 $,  *)
(* the annual saving in 10^-4 $, the weight reduction in hundredths of a   *)
(* percent.  The coil change saving and the totals that display_results    *)
(* derives from the results are functions of the fields kept here and are  *)
(* left out of the report.                                                  *)

\* the materials database, as far as the calculation reads it
materials ==
    [name \in {"Mild Steel", "High Strength Steel", "Aluminum 5052"} |->
        CASE name = "Mild Steel"          -> [density |-> 785]
          [] name = "High Strength Steel" -> [density |-> 785]
          [] name = "Aluminum 5052"       -> [density |-> 268]]

\* what the entries of the input tab can hold when Calculate is clicked:
\* the values set at start-up, and a few others typed over them
StampingEntries ==
    [part_length               : {800},
     part_width                : {600},
     current_thickness         : {0, 1000, 1200},
     optimized_thickness       : {0, 1000, 1200},
     current_material_cost_mt  : {800},
     proposed_material_cost_mt : {800, 3200},
     annual_volume             : {150000},
     coil_weight               : {20000},
     current_material          : DOMAIN materials,
     proposed_material         : DOMAIN materials,
     analysis_type             : {"material", "thickness", "both"}]

\* the part weight from material, area and thickness
calculate_weight(material, area_cm2, thickness_mm) ==
    LET volume_cm3 == (area_cm2 * thickness_mm) \div 10
    IN  (volume_cm3 * material.density) \div 100

\* get_input_values raises: the relative thickness reduction divides by the
\* current thickness
InputFaults(typed) == typed.current_thickness = 0

\* the two weights perform_calculations compares, by analysis type
ScenarioWeights(typed) ==
    LET current_mat   == materials[typed.current_material]
        proposed_mat  == materials[typed.proposed_material]
        part_area_cm2 == (typed.part_length * typed.part_width) \div 100
        current_weight_original ==
            calculate_weight(current_mat, part_area_cm2,
                             typed.current_thickness)
        current_weight_optimized ==
            calculate_weight(current_mat, part_area_cm2,
                             typed.optimized_thickness)
        proposed_weight_original ==
            calculate_weight(proposed_mat, part_area_cm2,
                             typed.current_thickness)
        proposed_weight_optimized ==
            calculate_weight(proposed_mat, part_area_cm2,
                             typed.optimized_thickness)
    IN  CASE typed.analysis_type = "material" ->
                [current_weight  |-> current_weight_original,
                 proposed_weight |-> proposed_weight_original,
                 part_area_cm2   |-> part_area_cm2]
          [] typed.analysis_type = "thickness" ->
                [current_weight  |-> current_weight_original,
                 proposed_weight |-> current_weight_optimized,
                 part_area_cm2   |-> part_area_cm2]
          [] OTHER ->
                [current_weight  |-> current_weight_original,
                 proposed_weight |-> proposed_weight_optimized,
                 part_area_cm2   |-> part_area_cm2]

\* perform_calculations raises ZeroDivisionError: a weight that is zero
\* (weight reduction, parts per strip) or a coil without parts
CalcFaults(typed) ==
    LET w == ScenarioWeights(typed)
    IN  \/ w.current_weight = 0
        \/ w.proposed_weight = 0
        \/ typed.coil_weight = 0

\* the inputs as perform_calculations leaves them: a thickness analysis
\* overrides the proposed material for reporting
ReportedInputs(typed) ==
    IF typed.analysis_type = "thickness"
    THEN [typed EXCEPT !.proposed_material = typed.current_material]
    ELSE typed

\* the results of perform_calculations
perform_calculations(typed) ==
    LET w == ScenarioWeights(typed)
        current_mat_cost_per_kg  == typed.current_material_cost_mt \div 100
        proposed_mat_cost_per_kg == typed.proposed_material_cost_mt \div 100
        current_material_cost  == w.current_weight * current_mat_cost_per_kg
        proposed_material_cost == w.proposed_weight * proposed_mat_cost_per_kg
        weight_saving_kg == w.current_weight - w.proposed_weight
        material_saving_per_part ==
            current_material_cost - proposed_material_cost
    IN  [shown                    |-> TRUE,
         current_weight_kg        |-> w.current_weight,
         proposed_weight_kg       |-> w.proposed_weight,
         weight_saving_kg         |-> weight_saving_kg,
         weight_reduction_pct     |->
             (weight_saving_kg * 100) \div (w.current_weight \div 100),
         current_material_cost    |-> current_material_cost,
         proposed_material_cost   |-> proposed_material_cost,
         material_saving_per_part |-> material_saving_per_part,
         annual_material_saving   |->
             (material_saving_per_part \div 1000)
                 * (typed.annual_volume \div 1000),
         current_parts_per_strip  |->
             (LongDiv(typed.coil_weight, w.current_weight, 9) * 85) \div 100,
         proposed_parts_per_strip |->
             (LongDiv(typed.coil_weight, w.proposed_weight, 9) * 85) \div 100,
         part_area_cm2            |-> w.part_area_cm2,
         analysis_type            |-> typed.analysis_type,
         current_mat_cost_per_kg  |-> current_mat_cost_per_kg,
         proposed_mat_cost_per_kg |-> proposed_mat_cost_per_kg]

\* the Calculate button: read the entries, calculate, show the results; any
\* exception ends in an error box and leaves the results tab as it was
CalculateAnalysis ==
    /\ \E typed \in StampingEntries :
          IF InputFaults(typed) \/ CalcFaults(typed)
          THEN UNCHANGED stamping
          ELSE /\ inputs' = ReportedInputs(typed)
               /\ report' = perform_calculations(typed)
    /\ UNCHANGED <<p, dt, coef, pc, T, t, time_history, temp_history, brk,
                   steps, T_new, stmt, ret, gui, batch>>

StampingSpec == RunInit /\ [][CalculateAnalysis]_vars

----------------------------------------------------------------------------
(* Properties                                                               *)

\* the values of all grid nodes of a field
Nodes(F) ==
    IF p.solver = "conical" THEN {F[i] : i \in DOMAIN F}
    ELSE UNION {{F[i][j] : j \in DOMAIN F[i]} : i \in DOMAIN F}

\* the numerical tolerance of the temperature range: one degree
Eps == TScale

\* C1: in every solver, a time step stores a sample if and only if the
\* history was empty or the new elapsed time is at least 0.5 s after the
\* last stored time; hence consecutive stored times are at least 0.5 s apart.
C1_SamplerRule ==
    [][steps' = steps + 1 =>
        /\ (Len(time_history') = Len(time_history) + 1)
             <=> (time_history = <<>>
                    \/ t' - time_history[Len(time_history)] >= SampleInterval)
        /\ \A i \in 1..(Len(time_history') - 1) :
              time_history'[i + 1] - time_history'[i] >= SampleInterval]_vars

\* a step that stored nothing, after two samples were stored
C1_Witness ==
    /\ Len(time_history) >= 2
    /\ t > time_history[Len(time_history)]
    /\ t - time_history[Len(time_history)] < SampleInterval

\* C2: the history is append-only: a step leaves both lists unchanged or
\* appends exactly one pair; stored pairs never change, stored times are
\* strictly increasing and both lists have the same length.
C2_AppendOnly ==
    [][/\ \/ UNCHANGED <<time_history, temp_history>>
          \/ /\ Len(time_history') = Len(time_history) + 1
             /\ Len(temp_history') = Len(temp_history) + 1
             /\ SubSeq(time_history', 1, Len(time_history)) = time_history
             /\ SubSeq(temp_history', 1, Len(temp_history)) = temp_history
       /\ Len(time_history') = Len(temp_history')
       /\ \A i \in 1..(Len(time_history') - 1) :
             time_history'[i] < time_history'[i + 1]]_vars

\* a returned run that stored three pairs
C2_Witness ==
    /\ pc = "returned"
    /\ Len(time_history) >= 3 /\ Len(temp_history) >= 3

\* C3: the cylindrical solver leaves its loop before t_end only when
\* t > 10 s, two samples exist, the last two stored samples differ by less
\* than 0.1 degree and the last one is below T_coolant + 50; otherwise it
\* steps until t >= t_end.
C3_EarlyStopOnlyIfConverged ==
    (p.solver = "cylindrical" /\ (brk \/ (pc = "returned" /\ t < p.sim_time)))
      => /\ t > WarmUp
         /\ Len(temp_history) >= 2
         /\ Abs(temp_history[Len(temp_history)]
                  - temp_history[Len(temp_history) - 1]) < ConvDelta
         /\ temp_history[Len(temp_history)] < p.T_coolant + NearCool

\* a cylindrical run that returned before t_end
C3_Witness ==
    /\ p.solver = "cylindrical" /\ pc = "returned"
    /\ brk /\ t < p.sim_time

\* C4 as stated: a cylindrical run that is not stopped early ends with
\* the elapsed time equal to t_end exactly.
C4_EndsExactlyAtTEnd ==
    (p.solver = "cylindrical" /\ pc = "returned" /\ ~brk) => t = p.sim_time

\* C4 amended: a cylindrical run that is not stopped early ends with
\* t_end <= t < t_end + dt.
C4_EndsWithinOneStep ==
    (p.solver = "cylindrical" /\ pc = "returned" /\ ~brk)
      => (p.sim_time <= t /\ t < p.sim_time + dt)

\* a cylindrical run that ran to the end and overshot t_end
C4_Witness ==
    /\ p.solver = "cylindrical" /\ pc = "returned" /\ ~brk
    /\ t > p.sim_time

\* C5: the square and conical solvers take a step only while t < t_end,
\* never stop early, and return with t_end <= t < t_end + dt.
C5_LoopUntilTEnd ==
    [][p.solver \in {"square", "conical"} =>
        /\ steps' = steps + 1 => t < p.sim_time
        /\ pc' = "returned" =>
              (~brk' /\ p.sim_time <= t' /\ t' < p.sim_time + dt)]_vars

\* a conical run that returned past t_end after stepping
C5_Witness ==
    /\ p.solver = "conical" /\ pc = "returned"
    /\ steps > 0 /\ t > p.sim_time

C7_StabilityBound == dt <= StableDt(p)

C9_TemperatureBounded ==
    \A x \in Nodes(T) : p.T_coolant - Eps <= x /\ x <= p.T_init + Eps

\* C10: with T_init > T_coolant and non-negative convective coefficients,
\* the center temperature never increases from one step to the next.
C10_CenterNonIncreasing ==
    [][(p.T_init > p.T_coolant /\ p.h_waterjet >= 0 /\ p.h_natural >= 0)
         => Center(coef, T') <= Center(coef, T)]_vars

\* the entries are numbers in range: positive k, rho, cp and dimensions,
\* non-negative convective coefficients and simulation time
ValidEntries(e) ==
    /\ e.bad = {}
    /\ e.mat.k > 0 /\ e.mat.rho > 0 /\ e.mat.cp > 0
    /\ e.cool.h_waterjet >= 0 /\ e.cool.h_natural >= 0
    /\ e.sim_time >= 0
    /\ \A s \in Solvers :
          /\ e.geom[s].width > 0
          /\ e.geom[s].height > 0
          /\ e.geom[s].cone_height >= 0

\* C11: when run_simulation is started with an entry that is not a number
\* or is out of range, an error status is reported, no solver is entered,
\* and no history, field plot or history plot is produced by that run.
C11_InvalidInputRejected ==
    (runs > 0 /\ ~ValidEntries(entries))
      => /\ pc = "idle" /\ rpc = "idle"
         /\ status \in {"Error: Check input values", "Error in simulation"}
         /\ results = <<>>
         /\ \A a \in {"ax1", "ax2", "ax3", "ax4"} : axes[a].run < runs

\* C12: when a fault is raised while one solver is stepping, the other two
\* geometries keep their outputs of this run: their fields are drawn and
\* their histories are on the history plot when the handler is left.
C12_FaultIsolation ==
    [][(rpc = "running" /\ pc = "loop" /\ status' = "Error in simulation")
         => \A s \in Solvers \ {p.solver} :
               /\ axes'[AxisOf(s)].run = runs
               /\ axes'.ax4.run = runs
               /\ s \in DOMAIN axes'.ax4.lines]_vars

\* C13: every solver call starts with t = 0, the field uniformly at
\* T_init and empty histories, and the pair it returns is a function of its
\* arguments and the resolution tier alone: two calls with equal arguments
\* return equal histories, whatever ran before them.
C13_FreshAndIndependent ==
    /\ [][(pc # "loop" /\ pc' = "loop")
            => /\ t' = 0 /\ ~brk'
               /\ T' = InitField(p')
               /\ time_history' = <<>> /\ temp_history' = <<>>]_vars
    /\ [](\A a, b \in log : a.args = b.args => a.ret = b.ret)

\* the cylindrical solver returned in two runs with equal arguments, after
\* square runs whose arguments and histories differed
C13_Witness ==
    \E a, b, c, d \in log :
        /\ a.run = 1 /\ b.run = 2 /\ c.run = 1 /\ d.run = 2
        /\ a.args.solver = "cylindrical" /\ a.args = b.args
        /\ Len(a.ret[1]) > 0
        /\ c.args.solver = "square" /\ d.args.solver = "square"
        /\ c.args # d.args /\ c.ret # d.ret

C16_GridAtLeastThree ==
    pc \in {"loop", "returned"}
      => LET counts == get_resolution_params(p.resolution, p.solver)
             length == IF p.solver = "cylindrical" THEN p.width \div 2
                       ELSE p.height + p.cone_height
         IN  /\ coef.n1 >= 3
             /\ coef.n1 = IF counts[1] < 3 THEN 3 ELSE counts[1]
             /\ DOMAIN T = 0..(coef.n1 - 1)
             /\ 1..(coef.n1 - 2) # {}
             /\ D1(p) = length \div (coef.n1 - 1)
             /\ p.solver # "conical"
                  => /\ coef.n2 >= 3
                     /\ coef.n2 = IF counts[2] < 3 THEN 3 ELSE counts[2]
                     /\ \A i \in DOMAIN T : DOMAIN T[i] = 0..(coef.n2 - 1)
                     /\ 1..(coef.n2 - 2) # {}
                     /\ D2(p) = (IF p.solver = "square" THEN p.width
                                 ELSE p.height) \div (coef.n2 - 1)

\* a cylindrical run stepping on the smallest grid of the table, 12 x 25
C16_Witness ==
    /\ pc = "loop" /\ steps > 0
    /\ p.solver = "cylindrical"
    /\ Cardinality(DOMAIN T) = 12 /\ Cardinality(DOMAIN T[0]) = 25

\* C17: the square bar run with the start-up entries (steel, waterjet 5000,
\* natural 10, coolant 20, initial 900, 15 s, 6 mm x 75 mm, tier Low) ends
\* with its center temperature strictly between 20 and 900 degrees and
\* with every node of the bottom row strictly colder than the center.
C17_QuenchedFaceCoolest ==
    pc = "returned"
      => /\ 20 * TScale < Center(coef, T)
         /\ Center(coef, T) < 900 * TScale
         /\ \A j \in DOMAIN T[0] : T[0][j] < Center(coef, T)

\* the run returned after its 15 s
C17_Witness ==
    /\ pc = "returned" /\ p = Quench
    /\ t >= Seconds(15) /\ Len(temp_history) = 30

\* the base names on the error list
ErrorNames == {error_files[k][1] : k \in DOMAIN error_files}

\* C18: a file that cannot be loaded or analysed does not end the batch:
\* when the handler has ended, every selected file is either a success
\* (stored in batch_results) or on the error list, and success_count + the
\* number of error files equals the number of selected files.
C18_EveryFileAccounted ==
    (bpc \in {"done", "raised"})
      => /\ success_count + Len(error_files) = Len(files)
         /\ \A i \in DOMAIN files :
               (files[i].base \in DOMAIN batch_results)
                 # (files[i].base \in ErrorNames)

SquareBoundary(c) ==
    {n \in (0..(c.n1 - 1)) \X (0..(c.n2 - 1)) :
        n[1] \in {0, c.n1 - 1} \/ n[2] \in {0, c.n2 - 1}}

\* C20: in every step of the square solver each boundary node, the four
\* corners included, is assigned by one of the four face updates.
C20_BoundaryCovered ==
    (p.solver = "square" /\ stmt = "commit")
      => \A n \in SquareBoundary(coef) :
            \E s \in {"bottom", "left", "right", "top"} :
                n \in SquareSlice(s, coef)

\* the nodes at the waterjet: row 0 of the square bar, axial index 0 of the
\* cylinder at every radius, the last node of the conical bar
QuenchedFace(q) ==
    Slice(q.solver, IF q.solver = "conical" THEN "tip" ELSE "bottom", Coef(q))

\* every node <<i, j>> of the grid (j = 0 in the conical bar)
AllNodes(c) == (0..(c.n1 - 1)) \X (0..(c.n2 - 1))

\* the value of field F at node n
At(solver, F, n) == IF solver = "conical" THEN F[n[1]] ELSE F[n[1]][n[2]]

\* other values of the two heat-transfer coefficient entries
OtherJet == {0, 2500}

OtherNatural == {0, 20}

\* the field after one step from F with arguments q
StepWith(q, F) == StepOf(q.solver, Coef(q), F)

\* fields F and G are equal on the set S of nodes
SameOn(solver, F, G, S) == \A n \in S : At(solver, F, n) = At(solver, G, n)

\* C21: the waterjet coefficient enters only the update of the quenched
\* face, the natural-convection coefficient only the updates of the other
\* nodes: from any field a solver reaches, a step with another h_waterjet
\* (same time step) differs only on the quenched face, and a step with
\* another h_natural gives the same quenched face.
C21_FaceCoefficients ==
    (pc = "loop" /\ stmt = "head")
      => LET face == QuenchedFace(p)
             rest == AllNodes(coef) \ face
             next == StepOf(p.solver, coef, T)
         IN  /\ \A h \in OtherJet :
                   LET q == [p EXCEPT !.h_waterjet = h]
                   IN  /\ SelectDt(q) = dt
                       /\ SameOn(p.solver, StepWith(q, T), next, rest)
             /\ \A h \in OtherNatural :
                   LET q == [p EXCEPT !.h_natural = h]
                   IN  /\ SelectDt(q) = dt
                       /\ SameOn(p.solver, StepWith(q, T), next, face)

\* a cylinder has cooled for some steps, and without the waterjet its
\* next step would leave every node of the quenched face warmer, and
\* without natural convection the top surface warmer
C21_Witness ==
    /\ pc = "loop" /\ stmt = "head" /\ p.solver = "cylindrical" /\ steps > 2
    /\ \A n \in QuenchedFace(p) :
          At(p.solver, StepWith([p EXCEPT !.h_waterjet = 0], T), n)
            > At(p.solver, StepWith(p, T), n)
    /\ \E n \in AllNodes(coef) \ QuenchedFace(p) :
          At(p.solver, StepWith([p EXCEPT !.h_natural = 0], T), n)
            > At(p.solver, StepWith(p, T), n)

\* the closed form of the tip temperature is compared over this many steps
MaxTipSteps == 50

\* x after n applications of the relaxation rule of line 855:
\* T_coolant + (x - T_coolant) * exp(-h_waterjet * dx / k)
RECURSIVE TipAfter(_, _, _)
TipAfter(c, x, n) ==
    IF n = 0 THEN x
    ELSE c.Tc + FxMul(c.tip, TipAfter(c, x, n - 1) - c.Tc)

\* C22: in the conical solver the tip node is written only by the
\* relaxation rule T_new[-1] = T_coolant + (T[-1] - T_coolant) *
\* exp(-h_waterjet * dx / k); so after n steps the tip temperature is the
\* n-fold relaxation of T_init, whatever the neighbouring nodes are.
C22_TipRelaxation ==
    /\ []((p.solver = "conical" /\ pc = "loop" /\ stmt = "head"
              /\ steps <= MaxTipSteps)
            => T[coef.n1 - 1] = TipAfter(coef, p.T_init, steps))
    /\ [][(p.solver = "conical" /\ stmt = "tip")
            => T_new'[coef.n1 - 1]
                 = coef.Tc + FxMul(coef.tip, T[coef.n1 - 1] - coef.Tc)]_vars
    /\ [][(p.solver = "conical" /\ stmt \notin {"head", "commit", "tip"})
            => T_new'[coef.n1 - 1] = T_new[coef.n1 - 1]]_vars

\* the tip has relaxed for some steps while its neighbour is still hotter
\* and the other statements of the step have run after the tip rule
C22_Witness ==
    /\ p.solver = "conical" /\ stmt = "commit" /\ steps > 2
    /\ T_new[coef.n1 - 1] < T[coef.n1 - 1]
    /\ T_new[coef.n1 - 2] > T_new[coef.n1 - 1]
    /\ T_new[coef.n1 - 2] # T[coef.n1 - 2]

\* r = np.linspace(0, radius, nr); r_safe = r.copy(); r_safe[0] = dr * 0.5
r_safe(q, i) == IF i = 0 THEN D1(q) \div 2 ELSE i * D1(q)

\* the divisors of one iteration of the cylindrical loop: 2 * dr, dr**2,
\* dz**2 and r_val at every interior node, dz, k * dz, k * dr and radius
CylDivisors(q) ==
    {2 * D1(q), D1(q)^2, D2(q)^2, D2(q), q.k * D2(q), q.k * D1(q),
     q.width \div 2}
      \cup {r_safe(q, n[1]) : n \in CylSlice("interior", Coef(q))}

\* C23: in the cylindrical solver the interior update runs over the radial
\* indices 1..nr-2 only, the radius it divides by is i * dr >= dr > 0, and
\* no divisor of a step is zero.
C23_NoDivisionAtAxis ==
    (p.solver = "cylindrical" /\ pc = "loop" /\ stmt = "interior")
      => /\ \A n \in Slice(p.solver, stmt, coef) :
               /\ n[1] \in 1..(coef.n1 - 2)
               /\ r_safe(p, n[1]) = n[1] * D1(p)
               /\ r_safe(p, n[1]) >= D1(p)
         /\ D1(p) > 0
         /\ 0 \notin CylDivisors(p)

\* the interior loop of the cylinder is about to run on a field that has
\* already cooled at the axis
C23_Witness ==
    /\ p.solver = "cylindrical" /\ pc = "loop" /\ stmt = "interior"
    /\ steps > 0
    /\ T[0][1] < p.T_init
    /\ <<1, 1>> \in Slice(p.solver, stmt, coef)

\* C24: every step of the cylindrical solver leaves at each axis node
\* 0 < j < nz-1 the value T[0,j] + alpha*dt*(2*(T[1,j] - T[0,j])/dr^2
\* + (T[0,j+1] - 2*T[0,j] + T[0,j-1])/dz^2) of the field T the step
\* started from.
C24_CenterlineUpdate ==
    [][(p.solver = "cylindrical" /\ stmt = "commit" /\ stmt' = "head")
        => \A j \in 1..(coef.n2 - 2) :
              T'[0][j] =
                T[0][j]
                  + FxMul(2 * Ratio(AlphaDt(p), D1(p)^2), T[1][j] - T[0][j])
                  + FxMul(Ratio(AlphaDt(p), D2(p)^2),
                          T[0][j + 1] - 2 * T[0][j] + T[0][j - 1])]_vars

\* a step of the cylinder is complete in which an axis node had both a
\* radial and an axial temperature difference
C24_Witness ==
    /\ p.solver = "cylindrical" /\ stmt = "commit" /\ steps > 0
    /\ \E j \in 1..(coef.n2 - 2) :
          /\ T[1][j] # T[0][j]
          /\ T[0][j + 1] # T[0][j]
          /\ T_new[0][j] # T[0][j]

C26_FirstSampleAfterFirstStep ==
    /\ [](/\ steps = 0 => (time_history = <<>> /\ temp_history = <<>>)
          /\ steps > 0 => (Len(time_history) >= 1 /\ time_history[1] = dt)
          /\ pc = "returned"
               => /\ (Len(ret[1]) > 0) <=> (p.sim_time > 0)
                  /\ (Len(ret[2]) > 0) <=> (p.sim_time > 0)
                  /\ p.sim_time <= 0 => (steps = 0 /\ T = InitField(p)))
    /\ [][(steps = 0 /\ steps' = 1)
            => /\ time_history' = <<dt>>
               /\ temp_history' = <<Center(coef, T')>>]_vars

\* a conical run whose center node cooled in the first step has returned
\* with that cooler temperature as its first sample
C26_Witness ==
    /\ pc = "returned" /\ p.solver = "conical" /\ steps > 0
    /\ ret[1][1] = dt
    /\ ret[2][1] < p.T_init

\* the three values of status_var run_simulation may end with
FinalStatuses ==
    {"Simulation completed!", "Error: Check input values",
     "Error in simulation"}

\* C27: whenever run_simulation is not executing after a call, the status
\* is one of the three final texts ("Error: Check input values" exactly
\* when an entry did not parse); "Simulation completed!" is shown only
\* when the three solvers of that call have returned; and a status of
\* "Running simulation..." is always replaced by a final text.
C27_StatusSettled ==
    /\ []((rpc = "idle" /\ runs > 0)
            => /\ status \in FinalStatuses
               /\ (status = "Error: Check input values")
                    <=> ParseFails(entries))
    /\ [](status = "Simulation completed!"
            => \A s \in Solvers :
                  \E l \in log : l.run = runs /\ l.args.solver = s)
    /\ (status = "Running simulation...")
          ~> (rpc = "idle" /\ status \in FinalStatuses)

\* a second call has completed after the first call ended with an error
C27_Witness ==
    /\ runs = 2 /\ rpc = "idle"
    /\ status = "Simulation completed!"
    /\ \A l \in log : l.run = 2

\* C28: when the batch is done, batch_results has one entry per
\* successfully processed file: its size equals success_count.
C28_OneEntryPerSuccess ==
    (bpc = "done") => Cardinality(DOMAIN batch_results) = success_count

\* C29: in a batch started with no file loaded, no file is analysed while
\* the column-selection dialog is still waiting for Apply, and every file
\* is analysed with columns chosen from the dialog's lists.
C29_ColumnsAppliedFirst ==
    /\ dialog.open => used = <<>>
    /\ df = "None" =>
          \A n \in DOMAIN used :
              {used[n].time, used[n].temp} \subseteq Range(files[1].columns)

\* C30: in a 'thickness' analysis of the stamping analyzer the proposed part
\* is evaluated entirely with the current material: its weight is the weight
\* of the current material at the optimized thickness, its cost is that
\* weight at the current material's price per kg, and with equal current and
\* optimized thickness the material saving per part is zero.
C30_ThicknessKeepsCurrentMaterial ==
    (report.shown /\ report.analysis_type = "thickness") =>
        /\ report.proposed_weight_kg =
              calculate_weight(materials[inputs.current_material],
                               report.part_area_cm2,
                               inputs.optimized_thickness)
        /\ report.proposed_material_cost =
              report.proposed_weight_kg * report.current_mat_cost_per_kg
        /\ inputs.current_thickness = inputs.optimized_thickness =>
              report.material_saving_per_part = 0

====
